---- MODULE Spec2Model ----
(***************************************************************************)
(* A model of three programs of the histocartography repository:           *)
(*   - experiments/histo-seg/preprocess.py: the script entry point and     *)
(*     preprocessing(), with the batch pipeline runner it drives           *)
(*     (specification Spec);                                               *)
(*   - ml/models/tissue_graph_model.py: the constructor of                 *)
(*     TissueGraphModel and _get_checkpoint_id (specification SpecTG);     *)
(*   - dataloader/consep_dataset.py: ConsepDataset._load_dataset,          *)
(*     __len__ and __getitem__ (specification SpecConsep).                 *)
(***************************************************************************)
EXTENDS Integers, Sequences, FiniteSets, TLC

VARIABLES
    \* ---- preprocess.py: the script and preprocessing() ----
    pc,           \* position in the script / in preprocessing()
    err,          \* the exception that ended the run, or None
    argv,         \* the parsed command line: [test]
    configExists, \* Path(args.config).exists()
    dataset,      \* the dataset module: PREPROCESS_PATH, IMAGES_DF, ...
    loaded,       \* the script's `config` (the loaded YAML), None before
    call,         \* preprocessing()'s arguments and locals, None before the call
    fs,           \* the directories that exist
    fs0,          \* history: the directories that existed at the start
    configYml,    \* the content of <final_path>/config.yml, None when absent
    linkAlias,    \* the alias that link_output made, None when none
    pipeline,     \* the BatchPipelineRunner, None before construction
    prog,         \* the runner's per-image progress
    log,          \* history: the effects so far, in order
    \* ---- tissue_graph_model.py ----
    tg,
    \* ---- consep_dataset.py ----
    ds

preVars == <<pc, err, argv, configExists, dataset, loaded, call, fs, fs0,
             configYml, linkAlias, pipeline, prog, log>>
vars == <<pc, err, argv, configExists, dataset, loaded, call, fs, fs0,
          configYml, linkAlias, pipeline, prog, log, tg, ds>>

\* ------------------------------------------------------------------ bounds
MaxImages == 2      \* rows of the image table
MaxCores == 2       \* the `cores` parameter ranges over 1..MaxCores
MaxFiles == 2       \* json files, and png files, of a Consep folder
MaxInstances == 2   \* centroids, and instance types, of an annotation file

None == "None"
\* Optional values are sets: {} is Python's None, {v} is the value v.
Nothing == {}
Some(v) == {v}
The(opt) == CHOOSE v \in opt : TRUE
\* What a left join leaves where the annotation table has no row.
NaN == [table |-> "NaN", image |-> 0]

\* ------------------------------------------------------- values and helpers
Ids == 1 .. MaxImages

\* A pathlib.Path stored in the image table, and str() of it.
PathOf(i) == [obj |-> "Path", of |-> i]
Str(p) == [obj |-> "str", of |-> p.of]

\* The image table (IMAGES_DF): rows indexed by image identifier.
ImageRow(i) == [name |-> i, path |-> PathOf(i)]
Ascending(n) == [k \in 1 .. n |-> ImageRow(k)]
Descending(n) == [k \in 1 .. n |-> ImageRow(n + 1 - k)]
ImageTables == UNION {{Ascending(n), Descending(n)} : n \in 0 .. MaxImages}

\* An annotation table: image identifier -> annotation record.  `tab` names
\* the pickle the record comes from.
AnnotationTable(tab, ids) == [i \in ids |-> [table |-> tab, image |-> i]]

\* utils.merge_metadata: the image table joined with the annotation table by
\* image identifier, one row per image.
merge_metadata(images, annotations) ==
    [k \in 1 .. Len(images) |->
        [name |-> images[k].name,
         path |-> images[k].path,
         annotation |-> IF images[k].name \in DOMAIN annotations
                        THEN annotations[images[k].name] ELSE NaN]]

\* DataFrame.iloc[[0]]: the first row as a table (IndexError when empty).
FirstRowTable(metadata) == <<metadata[1]>>

\* DataFrame.loc[label, "path"]: the path of the row labelled `label`.
HasLabel(metadata, label) == \E k \in 1 .. Len(metadata) : metadata[k].name = label
LocPath(metadata, label) ==
    LET k == CHOOSE j \in 1 .. Len(metadata) : metadata[j].name = label
    IN metadata[k].path

\* ------------------------------------------------------ pipeline configuration
\* config["stages"]: a list of one-key dicts; the stain normaliser is the
\* stage at Python index 1.
StainParamSets ==
    {[x \in {} |-> None]} \cup
    {("target" :> t) : t \in Ids \cup {0}} \cup
    {("target" :> t) @@ ("target_path" :> Str(PathOf(0))) : t \in {1}}
Stage0 == [preprocessing |-> [params |-> [x \in {} |-> None]]]
StainStage(params) == [stain_normalizers |-> [params |-> params]]
PipelineConfigs == {[stages |-> <<Stage0, StainStage(p)>>] : p \in StainParamSets}

\* Python's list index i is the sequence's index i + 1.
PyIndex(i) == i + 1
StainIndex == 1
StainParams(config) == config.stages[PyIndex(StainIndex)].stain_normalizers.params

\* config["stages"][1]["stain_normalizers"]["params"]["target_path"] = value
InjectTargetPath(config, value) ==
    [config EXCEPT !.stages[PyIndex(StainIndex)].stain_normalizers.params =
        ("target_path" :> value) @@ @]

\* yaml.dump(config): every stage in order, each with its parameters as
\* key/value lines, keys sorted.
KeyOrder == <<"target", "target_path">>
DumpParams(params) ==
    LET keys == SelectSeq(KeyOrder, LAMBDA k : k \in DOMAIN params)
    IN [j \in 1 .. Len(keys) |-> <<keys[j], params[keys[j]]>>]
StageKind(stage) == CHOOSE k \in DOMAIN stage : TRUE
yaml_dump(config) ==
    [j \in 1 .. Len(config.stages) |->
        LET kind == StageKind(config.stages[j])
        IN <<kind, DumpParams(config.stages[j][kind].params)>>]

\* ------------------------------------------------------------------ inputs
\* config["params"]: the keyword arguments of preprocessing().
ParamSets ==
    [dataset : {"dataset"},
     cores : 1 .. MaxCores,
     labels : BOOLEAN,
     save : BOOLEAN,
     link_directory : {Nothing, Some("v0")},
     partial_annotation : {Nothing, Some(5), Some(7)}]

\* The YAML files the script may be given: any subset of the two top-level
\* sections.
YamlFiles ==
    {[k \in keys |-> IF k = "pipeline" THEN p ELSE q] :
        keys \in SUBSET {"pipeline", "params"},
        p \in PipelineConfigs, q \in ParamSets}

\* The dataset module's constants.  The full annotation table has a row for
\* every image; PARTIAL_ANNOTATIONS_DFS registers key 5, a table that lacks
\* image 1.
Datasets ==
    [IMAGES_DF : ImageTables,
     ANNOTATIONS_DF : {AnnotationTable("ANNOTATIONS_DF", Ids)},
     PARTIAL_ANNOTATIONS_DFS : {(5 :> AnnotationTable("PARTIAL_5", Ids \ {1}))}]

\* The directories that may exist: PREPROCESS_PATH, PREPROCESS_PATH/outputs
\* and the run's final_path (below PREPROCESS_PATH).
FileSystems == {{}, {"PREPROCESS_PATH"}, {"PREPROCESS_PATH", "outputs"},
                {"PREPROCESS_PATH", "final_path"},
                {"PREPROCESS_PATH", "outputs", "final_path"}}

\* -------------------------------------------------- preprocess.py: __main__
Fail(e) == pc' = "failed" /\ err' = e
Goto(l) == pc' = l /\ err' = err
Logged(e) == \E k \in 1 .. Len(log) : log[k] = e
Config == The(loaded)
Args == The(call)

PreInit ==
    /\ pc = "main_assert_path"
    /\ err = None
    /\ argv \in [test : BOOLEAN]
    /\ configExists \in BOOLEAN
    /\ dataset \in Datasets
    /\ loaded = Nothing
    /\ call = Nothing
    /\ fs \in FileSystems
    /\ fs0 = fs
    /\ configYml = Nothing
    /\ linkAlias = Nothing
    /\ pipeline = Nothing
    /\ prog = <<>>
    /\ log = <<>>

\* assert Path(args.config).exists()
Main_AssertPath ==
    /\ pc = "main_assert_path"
    /\ IF configExists THEN Goto("main_load") ELSE Fail("AssertionError")
    /\ UNCHANGED <<argv, configExists, dataset, loaded, call, fs, fs0, configYml,
                   linkAlias, pipeline, prog, log, tg, ds>>

\* config = yaml.load(config_file)
Main_Load ==
    /\ pc = "main_load"
    /\ \E y \in YamlFiles : loaded' = Some(y)
    /\ Goto("main_assert_pipeline")
    /\ UNCHANGED <<argv, configExists, dataset, call, fs, fs0, configYml,
                   linkAlias, pipeline, prog, log, tg, ds>>

PipelineAsserted(config) == "pipeline" \in DOMAIN config
\* Faulty variant: the assertion on `params` left out.
ParamsAssertedMut(config) == TRUE
ParamsAsserted(config) == "params" \in DOMAIN config

\* assert "pipeline" in config
Main_AssertPipeline ==
    /\ pc = "main_assert_pipeline"
    /\ IF PipelineAsserted(Config) THEN Goto("main_assert_params")
       ELSE Fail("AssertionError")
    /\ UNCHANGED <<argv, configExists, dataset, loaded, call, fs, fs0, configYml,
                   linkAlias, pipeline, prog, log, tg, ds>>

\* assert "params" in config
Main_AssertParams ==
    /\ pc = "main_assert_params"
    /\ IF ParamsAsserted(Config) THEN Goto("main_call")
       ELSE Fail("AssertionError")
    /\ UNCHANGED <<argv, configExists, dataset, loaded, call, fs, fs0, configYml,
                   linkAlias, pipeline, prog, log, tg, ds>>

\* preprocessing(test=args.test, config=config["pipeline"], **config["params"]):
\* evaluating the arguments raises KeyError when a section is missing.
Main_Call ==
    /\ pc = "main_call"
    /\ IF {"pipeline", "params"} \subseteq DOMAIN Config
       THEN /\ call' = Some([config |-> Config["pipeline"],
                             test |-> argv.test,
                             cores |-> Config["params"].cores,
                             labels |-> Config["params"].labels,
                             save |-> Config["params"].save,
                             link_directory |-> Config["params"].link_directory,
                             partial_annotation |-> Config["params"].partial_annotation,
                             metadata |-> <<>>])
            /\ Goto("p_read_images")
       ELSE /\ call' = call
            /\ Fail("KeyError")
    /\ UNCHANGED <<argv, configExists, dataset, loaded, fs, fs0, configYml,
                   linkAlias, pipeline, prog, log, tg, ds>>

\* ------------------------------------------------ preprocess.py: preprocessing
\* metadata = pd.read_pickle(IMAGES_DF)
P_ReadImages ==
    /\ pc = "p_read_images"
    /\ call' = Some([Args EXCEPT !.metadata = dataset.IMAGES_DF])
    /\ log' = Append(log, "read_images")
    /\ Goto("p_labels")
    /\ UNCHANGED <<argv, configExists, dataset, loaded, fs, fs0, configYml,
                   linkAlias, pipeline, prog, tg, ds>>

\* `partial_annotation is None`: the full annotation table is the one read.
\* Faulty variant: partial_annotation ignored, the full table always read.
UsesFullAnnotationsMut(partial_annotation) == TRUE
UsesFullAnnotations(partial_annotation) == partial_annotation = Nothing

\* assert partial_annotation in PARTIAL_ANNOTATIONS_DFS
\* Faulty variant: the assertion on partial_annotation left out.
PartialSupportedMut(partial_annotation, dfs) == TRUE
PartialSupported(partial_annotation, dfs) == The(partial_annotation) \in DOMAIN dfs

\* if labels: read the annotation table and merge it into metadata
P_Labels ==
    /\ pc = "p_labels"
    /\ IF ~Args.labels
       THEN /\ Goto("p_mkdir")
            /\ UNCHANGED <<call, log>>
       ELSE IF UsesFullAnnotations(Args.partial_annotation)
       THEN /\ call' = Some([Args EXCEPT !.metadata =
                               merge_metadata(@, dataset.ANNOTATIONS_DF)])
            /\ log' = Append(log, "read_annotations")
            /\ Goto("p_mkdir")
       ELSE IF ~PartialSupported(Args.partial_annotation,
                                 dataset.PARTIAL_ANNOTATIONS_DFS)
       THEN /\ Fail("AssertionError")
            /\ UNCHANGED <<call, log>>
       ELSE IF The(Args.partial_annotation) \notin DOMAIN dataset.PARTIAL_ANNOTATIONS_DFS
       THEN /\ Fail("KeyError")
            /\ UNCHANGED <<call, log>>
       ELSE /\ call' = Some([Args EXCEPT !.metadata =
                               merge_metadata(@, dataset.PARTIAL_ANNOTATIONS_DFS[
                                                   The(Args.partial_annotation)])])
            /\ log' = Append(log, "read_annotations")
            /\ Goto("p_mkdir")
    /\ UNCHANGED <<argv, configExists, dataset, loaded, fs, fs0, configYml,
                   linkAlias, pipeline, prog, tg, ds>>

\* if save and not PREPROCESS_PATH.exists(): PREPROCESS_PATH.mkdir()
P_Mkdir ==
    /\ pc = "p_mkdir"
    /\ IF Args.save /\ "PREPROCESS_PATH" \notin fs
       THEN /\ fs' = fs \cup {"PREPROCESS_PATH"}
            /\ log' = Append(log, "mkdir_preprocess")
       ELSE UNCHANGED <<fs, log>>
    /\ Goto("p_target")
    /\ UNCHANGED <<argv, configExists, dataset, loaded, call, fs0, configYml,
                   linkAlias, pipeline, prog, tg, ds>>

\* The test branch: metadata.iloc[[0]], cores = 1, the first row's path.
\* Faulty variant: cores not reset in the test branch.
TestCoresMut(cores) == cores
TestCores(cores) == 1
TestSlice(args) ==
    LET first == FirstRowTable(args.metadata)
    IN [args EXCEPT !.metadata = first,
                    !.cores = TestCores(@),
                    !.config = InjectTargetPath(@, Str(first[1].path))]

\* The else branch: the path of the row whose identifier is `target`.
\* Faulty variant: the first row's path taken for the target's.
TargetPathMut(metadata, target) == metadata[1].path
TargetPath(metadata, target) == LocPath(metadata, target)
TargetInject(args) ==
    LET target == StainParams(args.config)["target"]
    IN [args EXCEPT !.config =
            InjectTargetPath(@, Str(TargetPath(args.metadata, target)))]

\* if test: ... else: inject the target path into the config
P_Target ==
    /\ pc = "p_target"
    /\ IF Args.test
       THEN IF Len(Args.metadata) = 0
            THEN /\ Fail("IndexError")
                 /\ UNCHANGED <<call, log>>
            ELSE /\ call' = Some(TestSlice(Args))
                 /\ log' = Append(log, "inject")
                 /\ Goto("p_build")
       ELSE IF "target" \notin DOMAIN StainParams(Args.config)
            THEN /\ Fail("KeyError")
                 /\ UNCHANGED <<call, log>>
            ELSE IF ~HasLabel(Args.metadata, StainParams(Args.config)["target"])
            THEN /\ Fail("KeyError")
                 /\ UNCHANGED <<call, log>>
            ELSE /\ call' = Some(TargetInject(Args))
                 /\ log' = Append(log, "inject")
                 /\ Goto("p_build")
    /\ UNCHANGED <<argv, configExists, dataset, loaded, fs, fs0, configYml,
                   linkAlias, pipeline, prog, tg, ds>>

\* ------------------------------------------- the batch pipeline runner
\* BatchPipelineRunner(output_path, pipeline_config, save): the runner keeps
\* the configuration it is given; its final_path is the run's directory,
\* keyed by the configuration, which a saving runner creates.
BatchPipelineRunner(config, save) ==
    [output_path |-> "PREPROCESS_PATH",
     pipeline_config |-> config,
     save |-> save,
     final_path |-> "final_path",
     metadata |-> <<>>,
     cores |-> 0]
Runner == The(pipeline)
NStages == Len(Runner.pipeline_config.stages)
Finished(k) == prog[k].st \in {"ok", "failed"}
Busy == Cardinality({k \in 1 .. Len(prog) : prog[k].st = "running"})

\* pipeline = BatchPipelineRunner(output_path=PREPROCESS_PATH,
\*                                pipeline_config=config, save=save)
P_Build ==
    /\ pc = "p_build"
    /\ pipeline' = Some(BatchPipelineRunner(Args.config, Args.save))
    /\ fs' = IF Args.save THEN fs \cup {"final_path"} ELSE fs
    /\ log' = Append(log, "runner_init")
    /\ Goto("p_run")
    /\ UNCHANGED <<argv, configExists, dataset, loaded, call, fs0, configYml,
                   linkAlias, prog, tg, ds>>

\* pipeline.run(metadata=metadata, cores=cores): the call
P_Run ==
    /\ pc = "p_run"
    /\ pipeline' = Some([Runner EXCEPT !.metadata = Args.metadata,
                                       !.cores = Args.cores])
    /\ prog' = [k \in 1 .. Len(Args.metadata) |-> [st |-> "pending", done |-> 0]]
    /\ log' = Append(log, "run")
    /\ Goto("running")
    /\ UNCHANGED <<argv, configExists, dataset, loaded, call, fs, fs0, configYml,
                   linkAlias, tg, ds>>

\* A free worker of the pool takes the next image.
W_Start(k) ==
    /\ pc = "running"
    /\ prog[k].st = "pending"
    /\ Busy < Runner.cores
    /\ prog' = [prog EXCEPT ![k].st = "running"]
    /\ UNCHANGED <<pc, err, argv, configExists, dataset, loaded, call, fs, fs0,
                   configYml, linkAlias, pipeline, log, tg, ds>>

\* The worker runs the image's next stage; after the last one the image is done.
W_Stage(k) ==
    /\ pc = "running"
    /\ prog[k].st = "running"
    /\ prog' = [prog EXCEPT ![k] =
                  [st |-> IF @.done + 1 = NStages THEN "ok" ELSE "running",
                   done |-> @.done + 1]]
    /\ UNCHANGED <<pc, err, argv, configExists, dataset, loaded, call, fs, fs0,
                   configYml, linkAlias, pipeline, log, tg, ds>>

\* The image's next stage fails: the image is given up, the pool goes on.
W_Fail(k) ==
    /\ pc = "running"
    /\ prog[k].st = "running"
    /\ prog' = [prog EXCEPT ![k].st = "failed"]
    /\ UNCHANGED <<pc, err, argv, configExists, dataset, loaded, call, fs, fs0,
                   configYml, linkAlias, pipeline, log, tg, ds>>

\* pipeline.run returns once every image is finished; preprocessing() does
\* not look at the outcome and goes on to the linking step.
\* Faulty variant: run raises when an image failed.
RunRaisesMut(p) == \E k \in 1 .. Len(p) : p[k].st = "failed"
RunRaises(p) == FALSE
P_RunReturn ==
    /\ pc = "running"
    /\ \A k \in 1 .. Len(prog) : Finished(k)
    /\ log' = Append(log, "run_returned")
    /\ IF RunRaises(prog) THEN Fail("RuntimeError") ELSE Goto("p_link")
    /\ UNCHANGED <<argv, configExists, dataset, loaded, call, fs, fs0, configYml,
                   linkAlias, pipeline, prog, tg, ds>>

\* if link_directory is not None
\* Faulty variant: the link made whatever link_directory is.
LinkRequestedMut(link_directory) == TRUE
LinkRequested(link_directory) == link_directory # Nothing
\* str(OUTPUTS_PATH / link_directory)
AliasPath(link_directory) == <<"PREPROCESS_PATH", "outputs", link_directory>>
LinkName(link_directory) == IF link_directory = Nothing THEN None ELSE The(link_directory)

\* if link_directory is not None: make PREPROCESS_PATH/outputs when missing
\* (Path.mkdir without parents: FileNotFoundError when PREPROCESS_PATH is
\* missing), then pipeline.link_output(str(OUTPUTS_PATH / link_directory))
P_Link ==
    /\ pc = "p_link"
    /\ IF ~LinkRequested(Args.link_directory)
       THEN /\ Goto("p_write")
            /\ UNCHANGED <<fs, linkAlias, log>>
       ELSE IF "outputs" \notin fs /\ "PREPROCESS_PATH" \notin fs
       THEN /\ Fail("FileNotFoundError")
            /\ UNCHANGED <<fs, linkAlias, log>>
       ELSE /\ fs' = fs \cup {"outputs"}
            /\ linkAlias' = Some(AliasPath(LinkName(Args.link_directory)))
            /\ log' = log \o (IF "outputs" \notin fs THEN <<"mkdir_outputs">> ELSE <<>>)
                          \o <<"link_output">>
            /\ Goto("p_write")
    /\ UNCHANGED <<argv, configExists, dataset, loaded, call, fs0, configYml,
                   pipeline, prog, tg, ds>>

\* The configuration that is dumped: the `config` argument, as injected.
\* Faulty variant: the configuration dumped as loaded, without the injection.
ConfigToDumpMut(args) == Config["pipeline"]
ConfigToDump(args) == args.config

\* with open(Path(pipeline.final_path) / "config.yml", 'w'): yaml.dump(config)
P_Write ==
    /\ pc = "p_write"
    /\ IF Runner.final_path \in fs
       THEN /\ configYml' = Some(yaml_dump(ConfigToDump(Args)))
            /\ log' = Append(log, "write_config")
            /\ Goto("done")
       ELSE /\ Fail("FileNotFoundError")
            /\ UNCHANGED <<configYml, log>>
    /\ UNCHANGED <<argv, configExists, dataset, loaded, call, fs, fs0,
                   linkAlias, pipeline, prog, tg, ds>>

PreNext ==
    \/ Main_AssertPath
    \/ Main_Load
    \/ Main_AssertPipeline
    \/ Main_AssertParams
    \/ Main_Call
    \/ P_ReadImages
    \/ P_Labels
    \/ P_Mkdir
    \/ P_Target
    \/ P_Build
    \/ P_Run
    \/ \E k \in 1 .. Len(prog) : W_Start(k)
    \/ \E k \in 1 .. Len(prog) : W_Stage(k)
    \/ \E k \in 1 .. Len(prog) : W_Fail(k)
    \/ P_RunReturn
    \/ P_Link
    \/ P_Write

\* The script is not running (the other two programs' specifications).
PreIdle ==
    /\ pc = "idle"
    /\ err = None
    /\ argv = [test |-> FALSE]
    /\ configExists = FALSE
    /\ dataset = <<>>
    /\ loaded = Nothing
    /\ call = Nothing
    /\ fs = {}
    /\ fs0 = {}
    /\ configYml = Nothing
    /\ linkAlias = Nothing
    /\ pipeline = Nothing
    /\ prog = <<>>
    /\ log = <<>>

Init == PreInit /\ tg = <<>> /\ ds = <<>>
Next == PreNext
Spec == Init /\ [][Next]_vars

\* ------------------------------------------------- tissue_graph_model.py
\* Strings that the code builds are sequences of tokens; '' is <<>>.
Digits == <<"0", "1", "2", "3", "4", "5", "6", "7", "8", "9">>
IntStr(n) == <<Digits[n + 1]>>
\* s.replace('_layer', '')
WithoutLayer(s) == SelectSeq(s, LAMBDA t : t # "_layer")
CandidateName(num_classes, layer_type) ==
    <<"bracs_", "tggnn", "_">> \o IntStr(num_classes) \o <<"_classes_">>
        \o WithoutLayer(layer_type) \o <<".pt">>

LayerTypes == {<<"gin", "_layer">>, <<"pna", "_layer">>, <<"gin">>}
ClassCounts == {3, 7}
GnnParamSets ==
    [layer_type : LayerTypes, output_dim : {32, 64}, num_layers : {2, 3},
     readout_op : {"concat", "mean"}]
ClassificationParamSets == [hidden_dim : {128}, num_layers : {1, 2}]
NodeDims == {4, 514}

\* zoo.MODEL_NAME_TO_URL / MODEL_NAME_TO_CONFIG: the registered checkpoints.
\* A registered configuration lists some of the parameters.
ZooGnnParams ==
    {("num_layers" :> 3) @@ ("output_dim" :> 64),
     ("output_dim" :> 64) @@ ("readout_op" :> "concat"),
     ("num_layers" :> 2)}
ZooClassificationParams ==
    {("hidden_dim" :> 128) @@ ("num_layers" :> 2), ("in_dim" :> 64)}
ZooConfigs ==
    [gnn_params : ZooGnnParams,
     classification_params : ZooClassificationParams,
     node_dim : {514}]
ZooNames == {CandidateName(3, <<"gin">>), CandidateName(7, <<"pna">>)}
Zoos == UNION {[names -> ZooConfigs] : names \in SUBSET ZooNames}

\* MultiLayerGNN(input_dim=node_dim, **gnn_params): the parameters the
\* module keeps itself, and those its layers keep.
MultiLayerGNN(node_dim, gnn_params) ==
    [own |-> [num_layers |-> gnn_params.num_layers,
              readout_op |-> gnn_params.readout_op],
     layer0 |-> [input_dim |-> node_dim,
                 output_dim |-> gnn_params.output_dim]]

\* _build_classification_params: the MLP head and its input width.
EmbeddingDim(gnn_params) ==
    IF gnn_params.readout_op = "concat"
    THEN gnn_params.output_dim * gnn_params.num_layers
    ELSE gnn_params.output_dim
MLP(in_dim, hidden_dim, out_dim, num_layers) ==
    [in_dim |-> in_dim, hidden_dim |-> hidden_dim, out_dim |-> out_dim,
     num_layers |-> num_layers]

\* hasattr(obj, key) / getattr(obj, key)
hasattr(obj, key) == key \in DOMAIN obj

\* The 2nd level-check of a gnn parameter: against the GNN's own attribute
\* when it has one, else against its first layer's.
GnnParamDiffers(m, key, val) ==
    IF hasattr(m.superpx_gnn.own, key)
    THEN val # m.superpx_gnn.own[key]
    ELSE val # m.superpx_gnn.layer0[key]
ClassificationParamDiffers(m, key, val) == val # m.pred_layer[key]
\* Faulty variant: the node_dim check left out.
NodeDimDiffersMut(m, cand_config) == FALSE
NodeDimDiffers(m, cand_config) == cand_config.node_dim # m.node_dim

\* TissueGraphModel._get_checkpoint_id
get_checkpoint_id(m) ==
    LET candidate == CandidateName(m.num_classes, m.gnn_params.layer_type)
    IN IF candidate \notin DOMAIN m.zoo THEN <<>>
       ELSE LET cand_config == m.zoo[candidate]
            IN IF \E key \in DOMAIN cand_config.gnn_params :
                      GnnParamDiffers(m, key, cand_config.gnn_params[key])
               THEN <<>>
               ELSE IF \E key \in DOMAIN cand_config.classification_params :
                      ClassificationParamDiffers(
                          m, key, cand_config.classification_params[key])
               THEN <<>>
               ELSE IF NodeDimDiffers(m, cand_config) THEN <<>>
               ELSE candidate

TGUnbuilt == [own |-> <<>>, layer0 |-> <<>>]

TGInit ==
    tg \in [pc : {"construct"},
            err : {None},
            pretrained : BOOLEAN,
            num_classes : ClassCounts,
            gnn_params : GnnParamSets,
            classification_params : ClassificationParamSets,
            node_dim : NodeDims,
            zoo : Zoos,
            superpx_gnn : {TGUnbuilt},
            pred_layer : {<<>>},
            model_name : {<<>>},
            events : {<<>>}]

\* __init__, steps 1-3: the attributes, the GNN and the classification head
TG_Build ==
    /\ tg.pc = "construct"
    /\ tg' = [tg EXCEPT
                !.superpx_gnn = MultiLayerGNN(tg.node_dim, tg.gnn_params),
                !.pred_layer = MLP(EmbeddingDim(tg.gnn_params),
                                   tg.classification_params.hidden_dim,
                                   tg.num_classes,
                                   tg.classification_params.num_layers),
                !.pc = "pretrained"]
    /\ UNCHANGED <<preVars, ds>>

\* __init__, step 4: if self.pretrained: model_name = self._get_checkpoint_id()
TG_Checkpoint ==
    /\ tg.pc = "pretrained"
    /\ IF ~tg.pretrained
       THEN tg' = [tg EXCEPT !.pc = "done"]
       ELSE LET model_name == get_checkpoint_id(tg)
            IN IF model_name # <<>>
               THEN tg' = [tg EXCEPT !.model_name = model_name, !.pc = "download"]
               ELSE tg' = [tg EXCEPT !.pc = "failed", !.err = "NotImplementedError"]
    /\ UNCHANGED <<preVars, ds>>

\* download_box_link(url=MODEL_NAME_TO_URL[model_name], out_fname=...): the
\* download returns, or raises
TG_Download ==
    /\ tg.pc = "download"
    /\ \E ok \in BOOLEAN :
          tg' = [tg EXCEPT
                   !.events = Append(@, <<"download", tg.model_name>>),
                   !.pc = IF ok THEN "load" ELSE "failed",
                   !.err = IF ok THEN None ELSE "DownloadError"]
    /\ UNCHANGED <<preVars, ds>>

\* self.load_state_dict(torch.load(os.path.join(checkpoint_path, model_name)))
TG_Load ==
    /\ tg.pc = "load"
    /\ tg' = [tg EXCEPT !.events = Append(@, <<"load", tg.model_name>>),
                        !.pc = "done"]
    /\ UNCHANGED <<preVars, ds>>

TGNext == TG_Build \/ TG_Checkpoint \/ TG_Download \/ TG_Load
InitTG == PreIdle /\ TGInit /\ ds = <<>>
SpecTG == InitTG /\ [][TGNext]_vars

\* ----------------------------------------------------- consep_dataset.py
\* An annotation file (json): c centroids and t instance types, each type a
\* one-element list, and the image's dimensions.
AnnotationFile(c, t) ==
    [instance_centroid_location |-> [k \in 1 .. c |-> <<k, k + k>>],
     instance_types |-> [k \in 1 .. t |-> <<k % 2>>],
     image_dimension |-> <<c + 1, t + 1>>]
AnnotationFiles ==
    {AnnotationFile(c, t) : c \in 0 .. MaxInstances, t \in 0 .. MaxInstances}
SeqsUpTo(S, n) == UNION {[1 .. m -> S] : m \in 0 .. n}
PngFiles(n) == [k \in 1 .. n |-> [image |-> k]]
Folders ==
    [json : SeqsUpTo(AnnotationFiles, MaxFiles),
     png : {PngFiles(n) : n \in 0 .. MaxFiles}]

\* zip(a, b): pairs up to the shorter of the two.
Min(a, b) == IF a <= b THEN a ELSE b
Zip(a, b) == [k \in 1 .. Min(Len(a), Len(b)) |-> <<a[k], b[k]>>]

\* [{CENTROID: centroid, LABEL: label[0]} for (centroid, label) in zip(...)]
NodeAnnotations(annotation) ==
    LET pairs == Zip(annotation.instance_centroid_location, annotation.instance_types)
    IN [k \in 1 .. Len(pairs) |-> [centroid |-> pairs[k][1], label |-> pairs[k][2][1]]]

\* BaseDataset.graph_builder(ann, image_size): one node per node annotation.
graph_builder(ann, image_size) == [nodes |-> ann, image_size |-> image_size]

\* ConsepDataset.__len__
DatasetLen(d) == Len(d.images)

NoItem == [graph |-> graph_builder(<<>>, <<>>), image |-> [image |-> 0], label |-> 0]

DSInit ==
    ds \in [pc : {"load"},
            err : {None},
            folder : Folders,
            segmentation_annotations : {<<>>},
            images : {<<>>},
            index : {0},
            item : {NoItem}]

\* ConsepDataset._load_dataset: every json file, then every png file
DS_Load ==
    /\ ds.pc = "load"
    /\ ds' = [ds EXCEPT !.segmentation_annotations = ds.folder.json,
                        !.images = ds.folder.png,
                        !.pc = "ready"]
    /\ UNCHANGED <<preVars, tg>>

\* ConsepDataset.__getitem__(index), for an index that __len__ allows.
\* self.segmentation_annotations[index] raises IndexError past the list's end.
DS_GetItem(index) ==
    /\ ds.pc = "ready"
    /\ IF index >= Len(ds.segmentation_annotations)
       THEN ds' = [ds EXCEPT !.index = index, !.pc = "failed", !.err = "IndexError"]
       ELSE LET annotation == ds.segmentation_annotations[PyIndex(index)]
                ann == NodeAnnotations(annotation)
                g == graph_builder(ann, annotation.image_dimension)
            IN ds' = [ds EXCEPT !.index = index,
                                !.item = [graph |-> g,
                                          image |-> ds.images[PyIndex(index)],
                                          label |-> 0],
                                !.pc = "got"]
    /\ UNCHANGED <<preVars, tg>>

DSNext ==
    \/ DS_Load
    \/ \E index \in 0 .. DatasetLen(ds) - 1 : DS_GetItem(index)
InitConsep == PreIdle /\ tg = <<>> /\ DSInit
SpecConsep == InitConsep /\ [][DSNext]_vars

\* ===================================================================
\* Properties of the script and of preprocessing() (specification Spec)
\* ===================================================================
Called == call # Nothing
Built == pipeline # Nothing
MainLabels == {"main_assert_path", "main_load", "main_assert_pipeline",
               "main_assert_params"}
NothingDone ==
    /\ log = <<>>
    /\ fs = fs0
    /\ pipeline = Nothing
    /\ linkAlias = Nothing
    /\ configYml = Nothing

\* C1: when the config path does not exist, or the loaded config lacks the
\* key `pipeline` or the key `params`, the script ends in an assertion error
\* before preprocessing is called: no metadata is read, no directory is
\* created, no runner is built or run and no config.yml is written.
C1_ValidationFailsFast ==
    LET missing == ~configExists
                   \/ (loaded # Nothing
                       /\ ~({"pipeline", "params"} \subseteq DOMAIN Config))
    IN missing =>
         /\ pc \in MainLabels \cup {"failed"}
         /\ pc = "main_load" => configExists
         /\ pc = "failed" => err = "AssertionError"
         /\ ~Called
         /\ NothingDone
C1_Witness ==
    /\ pc = "failed"
    /\ err = "AssertionError"
    /\ loaded # Nothing
    /\ DOMAIN Config = {"pipeline"}

\* The line of the dumped stage `j` that holds key `key`, if any.
DumpedValue(dump, j, key) ==
    {dump[j][2][i][2] : i \in {i \in 1 .. Len(dump[j][2]) : dump[j][2][i][1] = key}}

\* C2: the config.yml of a call that completes is the serialization of the
\* configuration the runner was given, target_path included; it is written
\* after pipeline.run returned, and every completed call has written it,
\* whatever save, test and link_directory are.
C2_ConfigYmlIsRunnerConfig ==
    /\ configYml # Nothing =>
         /\ Built
         /\ configYml = Some(yaml_dump(Runner.pipeline_config))
         /\ "target_path" \in DOMAIN StainParams(Runner.pipeline_config)
         /\ DumpedValue(The(configYml), PyIndex(StainIndex), "target_path")
              = {StainParams(Runner.pipeline_config)["target_path"]}
         /\ Logged("run_returned")
         /\ log[Len(log)] = "write_config"
    /\ pc = "done" => configYml # Nothing
    /\ Logged("write_config") => configYml # Nothing
C2_Witness ==
    /\ pc = "done"
    /\ ~Args.save
    /\ Args.test
    /\ Args.link_directory # Nothing
    /\ "target_path" \notin DOMAIN StainParams(Config["pipeline"])

SomeImage(st) == \E k \in 1 .. Len(prog) : prog[k].st = st

\* C3: a failure while processing one image does not abort the batch: the
\* pool never runs more than `cores` images at once, a failed image stops no
\* other image from being taken and run, when the run returns every image
\* has either run all its stages or failed, and preprocessing goes on to
\* the linking and config-writing steps.
C3_FailuresIsolated ==
    /\ pc = "running" =>
         /\ Busy <= Runner.cores
         /\ \A k \in 1 .. Len(prog) :
              /\ prog[k].st = "running" => ENABLED W_Stage(k)
              /\ (prog[k].st = "pending" /\ Busy < Runner.cores) => ENABLED W_Start(k)
    /\ Logged("run_returned") =>
         /\ Len(prog) = Len(Runner.metadata)
         /\ \A k \in 1 .. Len(prog) :
              \/ prog[k].st = "ok" /\ prog[k].done = NStages
              \/ prog[k].st = "failed" /\ prog[k].done < NStages
         /\ pc \in {"p_link", "p_write", "done", "failed"}
         /\ pc = "failed" => err = "FileNotFoundError"
C3_Witness ==
    /\ pc = "done"
    /\ Len(prog) >= 2
    /\ SomeImage("failed")
    /\ SomeImage("ok")
    /\ Logged("link_output")

\* The annotation table that `labels` and `partial_annotation` select.
SelectedAnnotations ==
    IF Config["params"].partial_annotation = Nothing
    THEN dataset.ANNOTATIONS_DF
    ELSE dataset.PARTIAL_ANNOTATIONS_DFS[The(Config["params"].partial_annotation)]
\* `row` is the image row `image`, joined with its annotation when labelled.
IsRowOf(row, image) ==
    /\ row.name = image.name
    /\ row.path = image.path
    /\ IF Config["params"].labels
       THEN /\ DOMAIN row = {"name", "path", "annotation"}
            /\ row.annotation = IF image.name \in DOMAIN SelectedAnnotations
                                THEN SelectedAnnotations[image.name] ELSE NaN
       ELSE row = image
Ran == Built /\ Logged("run")

\* C4: with test true the runner gets exactly one row, the first row of the
\* (possibly merged) metadata table, runs with cores = 1, and target_path is
\* the path of that image, whatever `target` is.
C4_TestIsSingleImage ==
    (Called /\ Args.test /\ Ran) =>
        /\ Len(Runner.metadata) = 1
        /\ IsRowOf(Runner.metadata[1], dataset.IMAGES_DF[1])
        /\ Runner.cores = 1
        /\ StainParams(Runner.pipeline_config)["target_path"]
             = Str(dataset.IMAGES_DF[1].path)
C4_Witness ==
    /\ Called /\ Args.test /\ Ran
    /\ Config["params"].cores > 1
    /\ Len(dataset.IMAGES_DF) > 1
    /\ Config["params"].labels
    /\ "target" \notin DOMAIN StainParams(Config["pipeline"])

ConfiguredTarget == StainParams(Config["pipeline"])
TargetKnown ==
    /\ "target" \in DOMAIN ConfiguredTarget
    /\ \E k \in 1 .. Len(dataset.IMAGES_DF) :
          dataset.IMAGES_DF[k].name = ConfiguredTarget["target"]

\* C5: with test false the runner's configuration has, in the stage at index
\* 1, a target_path that is the path of the image whose identifier is the
\* configured target; when the target is no identifier of the table the call
\* fails with no runner built; and every image of the table goes to the runner.
C5_TargetInjected ==
    (Called /\ ~Args.test) =>
        /\ Built =>
             /\ TargetKnown
             /\ \E k \in 1 .. Len(dataset.IMAGES_DF) :
                  /\ dataset.IMAGES_DF[k].name = ConfiguredTarget["target"]
                  /\ StainParams(Runner.pipeline_config)["target_path"]
                       = Str(dataset.IMAGES_DF[k].path)
             /\ Runner.pipeline_config.stages[PyIndex(0)] = Config["pipeline"].stages[PyIndex(0)]
        /\ ~TargetKnown =>
             /\ ~Built
             /\ ~Logged("runner_init")
             /\ pc \in {"p_read_images", "p_labels", "p_mkdir", "p_target", "failed"}
        /\ Ran =>
             /\ Len(Runner.metadata) = Len(dataset.IMAGES_DF)
             /\ \A k \in 1 .. Len(Runner.metadata) :
                  Runner.metadata[k].name = dataset.IMAGES_DF[k].name
C5_Witness ==
    /\ Called /\ ~Args.test /\ Ran
    /\ Len(Runner.metadata) >= 2
    /\ ConfiguredTarget["target"] # Runner.metadata[1].name
    /\ "target_path" \in DOMAIN ConfiguredTarget

C7_RunnerGetsEveryImage ==
    Ran =>
        /\ Len(Runner.metadata) = Len(dataset.IMAGES_DF)
        /\ \A k \in 1 .. Len(Runner.metadata) :
             IsRowOf(Runner.metadata[k], dataset.IMAGES_DF[k])

\* C7, amended: with test false the table handed to the runner has one row
\* per image of the image table, in order: joined with the selected
\* annotation table by identifier when labels is true, the image row
\* unchanged (and no annotation table read) when labels is false; with test
\* true the runner gets the first row of that table only.
C7_MetadataTable ==
    /\ Ran =>
        /\ Len(Runner.metadata) = IF Args.test THEN 1 ELSE Len(dataset.IMAGES_DF)
        /\ \A k \in 1 .. Len(Runner.metadata) :
             IsRowOf(Runner.metadata[k], dataset.IMAGES_DF[k])
    /\ (Called /\ ~Args.labels) => ~Logged("read_annotations")
    /\ (Called /\ Args.labels /\ pc \notin {"p_read_images", "p_labels", "failed"})
          => Logged("read_annotations")
C7_Witness ==
    /\ Ran /\ ~Args.test
    /\ Args.labels
    /\ Args.partial_annotation # Nothing
    /\ Len(Runner.metadata) >= 2
    /\ pc = "done"

UnsupportedPartial ==
    /\ Called
    /\ Args.labels
    /\ Args.partial_annotation # Nothing
    /\ The(Args.partial_annotation) \notin DOMAIN dataset.PARTIAL_ANNOTATIONS_DFS

\* C8: with labels true and a partial_annotation that is no key of
\* PARTIAL_ANNOTATIONS_DFS the call fails with an assertion error and changes
\* nothing: PREPROCESS_PATH is not created, the config gets no target_path,
\* no runner is built or run, no link is made, no config.yml is written.
C8_UnsupportedPartialAnnotation ==
    UnsupportedPartial =>
        /\ pc \in {"p_read_images", "p_labels", "failed"}
        /\ pc = "failed" => err = "AssertionError"
        /\ fs = fs0
        /\ Args.config = Config["pipeline"]
        /\ pipeline = Nothing
        /\ linkAlias = Nothing
        /\ configYml = Nothing
        /\ \A k \in 1 .. Len(log) : log[k] = "read_images"
C8_Witness ==
    /\ UnsupportedPartial
    /\ pc = "failed"
    /\ err = "AssertionError"
    /\ Args.save
    /\ "PREPROCESS_PATH" \notin fs
    /\ ~Args.test
    /\ TargetKnown

\* ===================================================================
\* Properties of TissueGraphModel (specification SpecTG)
\* ===================================================================
\* bracs_tggnn_<num_classes>_classes_<layer type without '_layer'>.pt
TGExpectedName ==
    <<"bracs_", "tggnn", "_", Digits[tg.num_classes + 1], "_classes_",
      tg.gnn_params.layer_type[1], ".pt">>
\* The model's own value of a registered classification parameter.
TGOwnClassification(key) ==
    IF key = "in_dim"
    THEN IF tg.gnn_params.readout_op = "concat"
         THEN tg.gnn_params.output_dim * tg.gnn_params.num_layers
         ELSE tg.gnn_params.output_dim
    ELSE tg.classification_params[key]
TGRegisteredAndEqual ==
    /\ TGExpectedName \in DOMAIN tg.zoo
    /\ LET registered == tg.zoo[TGExpectedName]
       IN /\ \A key \in DOMAIN registered.gnn_params :
                registered.gnn_params[key] = tg.gnn_params[key]
          /\ \A key \in DOMAIN registered.classification_params :
                registered.classification_params[key] = TGOwnClassification(key)
          /\ registered.node_dim = tg.node_dim

\* C9: with `pretrained` set, the checkpoint id is the candidate name when
\* that name is registered and every registered gnn parameter, every
\* registered classification parameter and the registered node_dim equal the
\* model's own values, and then the checkpoint is downloaded and afterwards
\* loaded; otherwise the id is empty and the constructor raises
\* NotImplementedError with no download and no load.  With `pretrained` unset
\* there is never a download or a load.
C9_CheckpointSelection ==
    /\ (tg.pretrained /\ tg.pc \notin {"construct", "pretrained"}) =>
         IF TGRegisteredAndEqual
         THEN /\ tg.model_name = TGExpectedName
              /\ tg.err # "NotImplementedError"
              /\ tg.pc = "download" => tg.events = <<>>
              /\ tg.pc \in {"load", "failed"} =>
                    tg.events = <<<<"download", TGExpectedName>>>>
              /\ tg.pc = "done" =>
                    tg.events = <<<<"download", TGExpectedName>>,
                                  <<"load", TGExpectedName>>>>
         ELSE /\ tg.model_name = <<>>
              /\ tg.pc = "failed"
              /\ tg.err = "NotImplementedError"
              /\ tg.events = <<>>
    /\ (~tg.pretrained \/ tg.pc \in {"construct", "pretrained"}) =>
         /\ tg.events = <<>>
         /\ tg.model_name = <<>>
         /\ tg.pc \in {"construct", "pretrained", "done"}
C9_Witness ==
    /\ tg.pretrained
    /\ tg.pc = "done"
    /\ tg.gnn_params.layer_type = <<"gin", "_layer">>
    /\ Len(tg.events) = 2
    /\ "in_dim" \in DOMAIN tg.zoo[tg.model_name].classification_params

\* ===================================================================
\* Properties of ConsepDataset (specification SpecConsep)
\* ===================================================================
\* C10: every index i with 0 <= i < len(dataset) is a valid argument of
\* __getitem__: it returns the i-th image, a graph built from the i-th
\* annotation file with one node annotation per (centroid, instance type)
\* pair of that file, and the label 0.
C10_EveryIndexValid ==
    ds.pc \in {"got", "failed"} =>
        /\ ds.err = None
        /\ ds.item.image = ds.folder.png[ds.index + 1]
        /\ ds.item.label = 0
        /\ LET file == ds.folder.json[ds.index + 1]
           IN /\ Len(ds.item.graph.nodes)
                   = Min(Len(file.instance_centroid_location), Len(file.instance_types))
              /\ \A k \in 1 .. Len(ds.item.graph.nodes) :
                   /\ ds.item.graph.nodes[k].centroid = file.instance_centroid_location[k]
                   /\ ds.item.graph.nodes[k].label = file.instance_types[k][1]
              /\ ds.item.graph.image_size = file.image_dimension

====
